---- MODULE Spec2Model ----
(***************************************************************************)
(* World-Happiness dashboard (toggle.py): the interaction state of the     *)
(* three views.  BubbleChart (hover highlight, click selection, tooltip),  *)
(* BrushingChart with its two Brush objects (rectangular brush, linked     *)
(* recolouring, hover, tooltip) and MapChart (hover highlight overlay,     *)
(* label visibility).  Every handler is an operator from the widget's      *)
(* state and the event to the widget's next state; the actions apply the   *)
(* handlers to events drawn from small sets.                               *)
(*                                                                         *)
(* Units: line widths are in tenths of a point (0.5 -> 5, 2 -> 20), RGBA   *)
(* components in tenths, pixel positions are integers, chart data          *)
(* coordinates are integers, areas are integers.                           *)
(***************************************************************************)
EXTENDS Integers, Sequences, FiniteSets, TLC

VARIABLES bubble, clicks, brushing, map, join

vars == <<bubble, clicks, brushing, map, join>>

(***************************************************************************)
(* Bounds of the model.                                                    *)
(***************************************************************************)
\* rows of the loaded table (after the null filtering of the loaders)
NumRows == 3
\* brush corners are drawn from 0..MaxCoord on each axis
MaxCoord == 2
\* scatter collections a brushed axes may accumulate before the next redraw
MaxCollections == 2
\* legend artists a panel's axes may accumulate before the next redraw
MaxLegends == 2

Rows == 0 .. (NumRows - 1)

\* "no index": find-nothing results, unset references
None == -1

Min(S) == CHOOSE m \in S : \A n \in S : m <= n

Max(S) == CHOOSE m \in S : \A n \in S : m >= n

(***************************************************************************)
(* Tooltip placement, the same code in the three on_hover handlers.        *)
(***************************************************************************)
\* offset_x = 20 / offset_y = 20
TooltipOffset == 20

\* self.tooltip.move(new_x + 5, new_y + 5)
TooltipNudge == 5

\* self.geometry() of a view widget is read from Qt at every hover: the size the
\* layout gives the page of the QStackedWidget, which is the window's size less
\* the layout margins and the button row.  The window is shown full screen
\* (window.showFullScreen(), the size of the screen) and the Escape key makes it
\* a normal window of 1000 x 1400 (keyPressEvent).  What is left for the page
\* depends on the screen and on the style: one sample for each of the two.
FullScreenGeometry == [width |-> 1920, height |-> 980]

NormalGeometry == [width |-> 1000, height |-> 1300]

\* the keys keyPressEvent is called with: Escape and any other
Keys == {"Escape", "Other"}

\* MainApp.keyPressEvent as a view widget sees it: on Escape the window becomes
\* normal and is resized, the layout gives the page its new size
Main_keyPressEvent(self, key) ==
    IF key = "Escape" THEN [self EXCEPT !.geometry = NormalGeometry] ELSE self

\* a key pressed in the main window: the three views are pages of one
\* QStackedWidget and take its size
MainKeyPress ==
    /\ \E key \in Keys :
          /\ bubble' = Main_keyPressEvent(bubble, key)
          /\ brushing' = Main_keyPressEvent(brushing, key)
          /\ map' = Main_keyPressEvent(map, key)
    /\ UNCHANGED <<clicks, join>>

\* one axis of the placement: the offset is flipped to the other side of the
\* cursor when the default placement overflows the far edge, and flipped back
\* when the flipped placement underflows the near edge
offset_along(mouse, tooltip_size, window_size) ==
    LET flipped == IF mouse + TooltipOffset + tooltip_size > window_size
                   THEN (0 - tooltip_size) - TooltipOffset
                   ELSE TooltipOffset
    IN  IF mouse + flipped < 0 THEN TooltipOffset ELSE flipped

\* the argument of self.tooltip.move(...); window_geometry is self.geometry()
tooltip_position(window_geometry, mouse_x, mouse_y, tooltip_width, tooltip_height) ==
    << mouse_x + offset_along(mouse_x, tooltip_width, window_geometry.width) + TooltipNudge,
       mouse_y + offset_along(mouse_y, tooltip_height, window_geometry.height) + TooltipNudge >>

\* cursor positions inside the widget the events are drawn from: the last
\* position whose default placement is not flipped, and the far corner, whose
\* placement is flipped on both axes
CursorSamples(window_geometry, tooltip_width, tooltip_height) ==
    { <<window_geometry.width - tooltip_width - TooltipOffset,
        window_geometry.height - tooltip_height - TooltipOffset>>,
      <<window_geometry.width - 1, window_geometry.height - 1>> }

\* QLabel hidden at (50, 50) by the constructors
TooltipHome == 50

InitTooltip(w, h) ==
    [visible |-> FALSE, x |-> TooltipHome, y |-> TooltipHome, width |-> w, height |-> h]

hide(tooltip) == [tooltip EXCEPT !.visible = FALSE]

show_at(tooltip, pos) == [tooltip EXCEPT !.visible = TRUE, !.x = pos[1], !.y = pos[2]]

(***************************************************************************)
(* Size legends (add_size_legend, add_dynamic_size_legend).                *)
(***************************************************************************)
\* size_markers = 50 + (...) * 950
LegendBase == 50

LegendSpan == 950

\* the slider position at which the areas span 50 .. 1000 (scale / 50)
ScaleUnit == 50

\* mutant of linspace: three values without the end point
linspace3_open(size_min, size_max) ==
    [k \in 0 .. 2 |-> << 3 * size_min + k * (size_max - size_min), 3 >>]

\* np.linspace(size_min, size_max, num=3): entry k of 0..2 is
\* size_min + k * (size_max - size_min) / 2.  A value is a fraction
\* <<numerator, denominator>>.
linspace3(size_min, size_max) ==
    [k \in 0 .. 2 |-> << 2 * size_min + k * (size_max - size_min), 2 >>]

\* the marker areas of a size legend, fractions too:
\* size_markers = 50 + ((size_values - size_min) / (size_max - size_min)) * 950
\* size_markers *= scale_factor / 50
\* (0 / 0, NaN, for a column whose values are all equal)
size_markers_of(size_values, size_min, size_max, scale_factor) ==
    [k \in DOMAIN size_values |->
        LET den == size_values[k][2]
        IN  << (LegendBase * den * (size_max - size_min)
                  + (size_values[k][1] - den * size_min) * LegendSpan) * scale_factor,
               den * (size_max - size_min) * ScaleUnit >>]

\* add_size_legend: the three markers drawn on the legend axes of the bubble view
add_size_legend(size_data, size_attr, scale_factor) ==
    LET size_min == Min({size_data[r] : r \in Rows})
        size_max == Max({size_data[r] : r \in Rows})
        size_values == linspace3(size_min, size_max)
    IN  [title        |-> size_attr,
         size_values  |-> size_values,
         size_markers |-> size_markers_of(size_values, size_min, size_max, scale_factor)]

\* add_dynamic_size_legend: the legend artist of a linked panel, its three
\* values (the labels) and marker areas (markersize = sqrt(area))
add_dynamic_size_legend(size_data, size_attr, scale_factor) ==
    LET size_min == Min({size_data[r] : r \in Rows})
        size_max == Max({size_data[r] : r \in Rows})
        size_values == linspace3(size_min, size_max)
    IN  [present      |-> TRUE,
         visible      |-> TRUE,
         title        |-> size_attr,
         size_values  |-> size_values,
         size_markers |-> size_markers_of(size_values, size_min, size_max, scale_factor)]

(***************************************************************************)
(* Bubble view.                                                            *)
(***************************************************************************)
\* linewidths: 0.5 and 2, in tenths of a point
LwThin == 5

LwBold == 20

\* self.tooltip.setFixedSize(225, 63)
BubbleTooltipWidth == 225

BubbleTooltipHeight == 63

\* the keys of self.attributes, one button each
BubbleAttributes ==
    { "Logged GDP per capita", "Social support", "Healthy life expectancy",
      "Freedom to make life choices", "Generosity", "Perceptions of corruption" }

\* self.data["pop_est"], the population joined to each row: a fixed sample, not
\* evenly spread (0, 1, 4, ...)
pop_est == [i \in Rows |-> i * i]

\* add_size_legend(..., scale_factor=100)
BubbleScaleFactor == 100

\* a pointer event on the bubble canvas: inaxes says event.inaxes == self.ax, ind
\* is the set of markers scatter.contains(event) reports, pos the widget position
BubbleEventsAt(positions) ==
    { [inaxes |-> a, ind |-> s, pos |-> p] :
        a \in BOOLEAN, s \in SUBSET Rows, p \in positions }

\* the events the bubble canvas can deliver in the widget as it is now sized
BubbleEvents ==
    BubbleEventsAt(CursorSamples(bubble.geometry, BubbleTooltipWidth, BubbleTooltipHeight))

\* BubbleChart.__init__ followed by the first update_data
BubbleInit ==
    [ edgecolors       |-> [i \in Rows |-> "white"],
      linewidths       |-> [i \in Rows |-> LwThin],
      selected_indices |-> {},
      scatter          |-> [edgecolors |-> [i \in Rows |-> "white"],
                            linewidths |-> [i \in Rows |-> LwThin]],
      tooltip          |-> InitTooltip(BubbleTooltipWidth, BubbleTooltipHeight),
      geometry         |-> FullScreenGeometry,
      x_attribute      |-> "Logged GDP per capita",
      cbar             |-> 1,
      size_legend_axes |-> 1,
      size_legend      |-> add_size_legend(pop_est, "Population Size", BubbleScaleFactor) ]

\* update_data: the scatter is rebuilt from the stored per-row arrays; the
\* colorbar is made on the first call and updated afterwards; the axes of the
\* size legend are removed, if there are any, before new ones are added.
\* cbar and size_legend_axes count the colorbars and legend axes of the figure.
Bubble_update_data(self, x_attribute) ==
    [self EXCEPT !.x_attribute = x_attribute,
                 !.scatter = [edgecolors |-> self.edgecolors,
                              linewidths |-> self.linewidths],
                 !.cbar = IF @ = 0 THEN 1 ELSE @,
                 !.size_legend_axes = (IF @ > 0 THEN @ - 1 ELSE @) + 1,
                 !.size_legend =
                     add_size_legend(pop_est, "Population Size", BubbleScaleFactor)]

\* mutant of on_hover: the hovered row is drawn black whatever its stored colour
Bubble_on_hover_any(self, event) ==
    IF ~event.inaxes
    THEN [self EXCEPT !.tooltip = hide(self.tooltip)]
    ELSE IF event.ind # {}
    THEN LET hovered_index == Min(event.ind)
         IN  [self EXCEPT
                 !.tooltip = show_at(self.tooltip,
                                 tooltip_position(self.geometry, event.pos[1], event.pos[2],
                                                  self.tooltip.width, self.tooltip.height)),
                 !.scatter = [edgecolors |-> [self.edgecolors EXCEPT ![hovered_index] = "black"],
                              linewidths |-> [self.linewidths EXCEPT ![hovered_index] = LwBold]]]
    ELSE [self EXCEPT !.tooltip = hide(self.tooltip),
                      !.scatter = [edgecolors |-> self.edgecolors,
                                   linewidths |-> self.linewidths]]

Bubble_on_hover(self, event) ==
    IF ~event.inaxes
    THEN [self EXCEPT !.tooltip = hide(self.tooltip)]
    ELSE IF event.ind # {}
    THEN LET hovered_index == Min(event.ind)
             plain == self.edgecolors[hovered_index] # "red"
             hover_edgecolors ==
                 IF plain THEN [self.edgecolors EXCEPT ![hovered_index] = "black"]
                          ELSE self.edgecolors
             hover_linewidths ==
                 IF plain THEN [self.linewidths EXCEPT ![hovered_index] = LwBold]
                          ELSE self.linewidths
         IN  [self EXCEPT
                 !.tooltip = show_at(self.tooltip,
                                 tooltip_position(self.geometry, event.pos[1], event.pos[2],
                                                  self.tooltip.width, self.tooltip.height)),
                 !.scatter = [edgecolors |-> hover_edgecolors,
                              linewidths |-> hover_linewidths]]
    ELSE [self EXCEPT !.tooltip = hide(self.tooltip),
                      !.scatter = [edgecolors |-> self.edgecolors,
                                   linewidths |-> self.linewidths]]

\* mutant of on_click: deselecting restores the colour and forgets the width
Bubble_on_click_keeps_width(self, event) ==
    IF ~event.inaxes \/ event.ind = {}
    THEN self
    ELSE LET clicked_index == Min(event.ind)
             toggled ==
                 IF self.edgecolors[clicked_index] = "red"
                 THEN [self EXCEPT !.edgecolors[clicked_index] = "white",
                                   !.selected_indices = @ \ {clicked_index}]
                 ELSE [self EXCEPT !.edgecolors[clicked_index] = "red",
                                   !.linewidths[clicked_index] = LwBold,
                                   !.selected_indices = @ \cup {clicked_index}]
         IN  [toggled EXCEPT !.scatter = [edgecolors |-> toggled.edgecolors,
                                          linewidths |-> toggled.linewidths]]

\* mutant of on_click: selecting a row drops every other selection
Bubble_on_click_single(self, event) ==
    IF ~event.inaxes \/ event.ind = {}
    THEN self
    ELSE LET clicked_index == Min(event.ind)
             toggled ==
                 IF self.edgecolors[clicked_index] = "red"
                 THEN [self EXCEPT !.edgecolors[clicked_index] = "white",
                                   !.linewidths[clicked_index] = LwThin,
                                   !.selected_indices = @ \ {clicked_index}]
                 ELSE [self EXCEPT
                          !.edgecolors = [i \in Rows |-> IF i = clicked_index THEN "red"
                                                                              ELSE "white"],
                          !.linewidths = [i \in Rows |-> IF i = clicked_index THEN LwBold
                                                                              ELSE LwThin],
                          !.selected_indices = {clicked_index}]
         IN  [toggled EXCEPT !.scatter = [edgecolors |-> toggled.edgecolors,
                                          linewidths |-> toggled.linewidths]]

\* mutant of on_click: deselecting restores the border and leaves the index in
\* selected_indices
Bubble_on_click_no_remove(self, event) ==
    IF ~event.inaxes \/ event.ind = {}
    THEN self
    ELSE LET clicked_index == Min(event.ind)
             toggled ==
                 IF self.edgecolors[clicked_index] = "red"
                 THEN [self EXCEPT !.edgecolors[clicked_index] = "white",
                                   !.linewidths[clicked_index] = LwThin]
                 ELSE [self EXCEPT !.edgecolors[clicked_index] = "red",
                                   !.linewidths[clicked_index] = LwBold,
                                   !.selected_indices = @ \cup {clicked_index}]
         IN  [toggled EXCEPT !.scatter = [edgecolors |-> toggled.edgecolors,
                                          linewidths |-> toggled.linewidths]]

\* on_click.  set.remove raises KeyError for an index that is not in the set:
\* the handler then ends with the two arrays written and the scatter untouched.
Bubble_on_click(self, event) ==
    IF ~event.inaxes
    THEN self
    ELSE IF event.ind # {}
    THEN LET clicked_index == Min(event.ind)
             redraw(chart) == [chart EXCEPT !.scatter = [edgecolors |-> chart.edgecolors,
                                                         linewidths |-> chart.linewidths]]
         IN  IF self.edgecolors[clicked_index] = "red"
             THEN LET cleared == [self EXCEPT !.edgecolors[clicked_index] = "white",
                                              !.linewidths[clicked_index] = LwThin]
                  IN  IF clicked_index \in self.selected_indices
                      THEN redraw([cleared EXCEPT !.selected_indices = @ \ {clicked_index}])
                      ELSE cleared
             ELSE redraw([self EXCEPT !.edgecolors[clicked_index] = "red",
                                      !.linewidths[clicked_index] = LwBold,
                                      !.selected_indices = @ \cup {clicked_index}])
    ELSE self

\* what a click is about to toggle: the row's stored border and membership
RowStyle(self, i) ==
    <<self.edgecolors[i], self.linewidths[i], i \in self.selected_indices>>

\* bookkeeping of consecutive clicks on one row (for the toggle-twice property)
NoClicks == [row |-> None, count |-> 0, before |-> <<"white", LwThin, FALSE>>]

ClickLog(log, self, event) ==
    IF ~event.inaxes \/ event.ind = {}
    THEN log
    ELSE LET i == Min(event.ind)
         IN  IF log.row = i /\ log.count = 1
             THEN [log EXCEPT !.count = 2]
             ELSE [row |-> i, count |-> 1, before |-> RowStyle(self, i)]

BubbleHover ==
    /\ \E event \in BubbleEvents : bubble' = Bubble_on_hover(bubble, event)
    /\ UNCHANGED <<clicks, brushing, map, join>>

\* a button press on the bubble canvas with the cursor at one of positions
BubbleClickAt(positions) ==
    /\ \E event \in BubbleEventsAt(positions) :
          /\ bubble' = Bubble_on_click(bubble, event)
          /\ clicks' = ClickLog(clicks, bubble, event)
    /\ UNCHANGED <<brushing, map, join>>

BubbleClick ==
    BubbleClickAt(CursorSamples(bubble.geometry, BubbleTooltipWidth, BubbleTooltipHeight))

BubbleButton ==
    /\ \E attribute \in BubbleAttributes : bubble' = Bubble_update_data(bubble, attribute)
    /\ clicks' = NoClicks
    /\ UNCHANGED <<brushing, map, join>>

BubbleNext == BubbleHover \/ BubbleClick \/ BubbleButton \/ MainKeyPress

(***************************************************************************)
(* Linked (brushing) view: the table, the two Brush objects, the handlers. *)
(***************************************************************************)
\* the columns offered by every dropdown (self.data.columns); every dropdown
\* starts on the first one
Columns == <<"Country name", "Ladder score">>

ColumnSet == {Columns[k] : k \in 1 .. Len(Columns)}

\* the table as the handlers read it after construction: the first update_graph
\* replaces the text column "Country name" by pd.factorize codes (0, 1, 2, ...
\* in row order); the scores are a fixed sample with no nulls (dropna at load)
value(row, column) ==
    IF column = "Country name" THEN row ELSE (2 * (row + 1)) % 3

\* self.data of the view as a Brush receives it: the rows of the table in order
table == [k \in 1 .. NumRows |-> k - 1]

\* pd.notna of a cell: the cells of the loaded table all hold numbers
notna(v) == v \in Int

\* mutant of dropna: a cell holding 0 counts as missing
dropna_zero(data, x_attr, y_attr) ==
    SelectSeq(data, LAMBDA r : value(r, x_attr) # 0 /\ value(r, y_attr) # 0)

\* data.dropna(subset=[x_attr, y_attr]).reset_index(drop=True), followed by
\* pd.to_numeric on the two columns (numbers stay as they are): data lists the
\* rows of the table a Brush still holds, position i + 1 being its row i
dropna(data, x_attr, y_attr) ==
    SelectSeq(data, LAMBDA r : notna(value(r, x_attr)) /\ notna(value(r, y_attr)))

\* range(len(data))
RowsOf(data) == 0 .. (Len(data) - 1)

Graphs == {1, 2}

other(graph) == 3 - graph

\* gray = (0.7, 0.7, 0.7, 1.0)
gray == <<"rgba", 7, 7, 7, 10>>

\* cmap(norm(color)): plt.Normalize maps v to (v - vmin) / (vmax - vmin), and to
\* 0 when vmin = vmax; the colormap is one-to-one on the normalised value
default_colors_of(color_attr) ==
    LET vmin == Min({value(r, color_attr) : r \in Rows})
        vmax == Max({value(r, color_attr) : r \in Rows})
    IN  [i \in Rows |->
            IF vmin = vmax THEN <<"viridis", 0, 1>>
            ELSE <<"viridis", value(i, color_attr) - vmin, vmax - vmin>>]

\* min_r, max_r = 50, 1000: marker areas in points^2
min_r == 50

max_r == 1000

\* mutant of scale: the scale factor multiplies the whole area, as in the legends
Brushing_scale_whole(size_attr, scale_factor) ==
    LET size_min == Min({value(r, size_attr) : r \in Rows})
        size_max == Max({value(r, size_attr) : r \in Rows})
        span     == size_max - size_min
    IN  [i \in Rows |->
            << (min_r * span + (value(i, size_attr) - size_min) * (max_r - min_r))
                 * scale_factor,
               span * ScaleUnit >>]

\* BrushingChart.scale.  A marker area is a fraction <<numerator, denominator>>:
\* min_r + ((size - min) / (max - min)) * (max_r - min_r) * scale / 50, the
\* scale factor multiplying the second term only.  A column whose values are all
\* equal gives 0 / 0 (NaN), the fraction of denominator 0.
Brushing_scale(size_attr, scale_factor) ==
    LET size_min == Min({value(r, size_attr) : r \in Rows})
        size_max == Max({value(r, size_attr) : r \in Rows})
        span     == size_max - size_min
    IN  [i \in Rows |->
            << min_r * span * ScaleUnit
                 + (value(i, size_attr) - size_min) * (max_r - min_r) * scale_factor,
               span * ScaleUnit >>]

\* pd.to_numeric(...).fillna(1).clip(lower=0), the column the legend is built from
size_data_of(size_attr) ==
    [i \in Rows |-> IF value(i, size_attr) < 0 THEN 0 ELSE value(i, size_attr)]

\* ax.get_legend() of an axes that has none
no_legend ==
    [present      |-> FALSE,
     visible      |-> FALSE,
     title        |-> "",
     size_values  |-> [k \in 0 .. 2 |-> <<0, 1>>],
     size_markers |-> [k \in 0 .. 2 |-> <<0, 1>>]]

\* a scatter collection as ax.scatter(..., edgecolors='w', linewidths=0.5) makes it
new_scatter(c) ==
    [present    |-> TRUE,
     c          |-> c,
     edgecolors |-> [i \in Rows |-> "white"],
     linewidths |-> [i \in Rows |-> LwThin],
     attached   |-> TRUE]

\* self.scatter_plot = None
no_scatter ==
    [present    |-> FALSE,
     c          |-> [i \in Rows |-> gray],
     edgecolors |-> [i \in Rows |-> "white"],
     linewidths |-> [i \in Rows |-> LwThin],
     attached   |-> FALSE]

\* Brush.__init__
Brush(df, default_colors, size_scaled) ==
    [data           |-> df,
     sizes          |-> size_scaled,
     selected       |-> {},
     default_colors |-> default_colors,
     colors         |-> default_colors,
     scatter_plot   |-> no_scatter]

\* mutant of update_colors: no special case for an empty selection
Brush_update_colors_no_reset(self, selected) ==
    [self EXCEPT !.colors =
        [i \in RowsOf(self.data) |-> IF i \notin selected THEN gray ELSE self.default_colors[i]]]

Brush_update_colors(self, selected) ==
    IF Cardinality(selected) = 0
    THEN [self EXCEPT !.colors = self.default_colors]
    ELSE [self EXCEPT !.colors =
             [i \in RowsOf(self.data) |-> IF i \notin selected THEN gray ELSE self.default_colors[i]]]

\* Series.between(left, right, inclusive='both')
between(v, left, right) == left <= v /\ v <= right

\* x1, x2 = sorted([a, b])
sorted2(a, b) == IF a <= b THEN <<a, b>> ELSE <<b, a>>

\* mutant of the row filter: the corners are taken as dragged, not sorted
Brush_select_rows_unsorted(data, eclick, erelease, x_attr, y_attr) ==
    { i \in RowsOf(data) : /\ between(value(data[i + 1], x_attr), eclick[1], erelease[1])
                           /\ between(value(data[i + 1], y_attr), eclick[2], erelease[2]) }

\* the rows of data (the Brush's table after its dropna) the rectangle of a drag
\* selects; eclick and erelease are the two corners <<xdata, ydata>>
Brush_select_rows(data, eclick, erelease, x_attr, y_attr) ==
    LET xs == sorted2(eclick[1], erelease[1])
        ys == sorted2(eclick[2], erelease[2])
    IN  { i \in RowsOf(data) : /\ between(value(data[i + 1], x_attr), xs[1], xs[2])
                               /\ between(value(data[i + 1], y_attr), ys[1], ys[2]) }

\* mutant of callback: the colours are updated before the rows are filtered,
\* from the selection of the gesture before
Brush_callback_stale(self, collections, eclick, erelease, x_attr, y_attr) ==
    LET removed  == self.scatter_plot.present /\ self.scatter_plot.attached
        data     == dropna(self.data, x_attr, y_attr)
        coloured == Brush_update_colors([self EXCEPT !.data = data], self.selected)
        selected == { i \in RowsOf(data) :
                        /\ between(value(data[i + 1], x_attr),
                                   sorted2(eclick[1], erelease[1])[1],
                                   sorted2(eclick[1], erelease[1])[2])
                        /\ between(value(data[i + 1], y_attr),
                                   sorted2(eclick[2], erelease[2])[1],
                                   sorted2(eclick[2], erelease[2])[2]) }
    IN  [brush       |-> [coloured EXCEPT !.selected = selected,
                                          !.scatter_plot = new_scatter(coloured.colors)],
         collections |-> (IF removed THEN collections - 1 ELSE collections) + 1]

\* Brush.callback: self is the Brush, collections the number of collections on
\* its axes; the result is the Brush and its axes after the call
Brush_callback(self, collections, eclick, erelease, x_attr, y_attr) ==
    LET removed  == self.scatter_plot.present /\ self.scatter_plot.attached
        data     == dropna(self.data, x_attr, y_attr)
        selected == Brush_select_rows(data, eclick, erelease, x_attr, y_attr)
        coloured == Brush_update_colors([self EXCEPT !.data = data, !.selected = selected],
                                        selected)
    IN  [brush       |-> [coloured EXCEPT !.scatter_plot = new_scatter(coloured.colors)],
         collections |-> (IF removed THEN collections - 1 ELSE collections) + 1]

\* self.tooltip.setFixedSize(400, 300)
BrushingTooltipWidth == 400

BrushingTooltipHeight == 300

\* update_graph for one panel: a new Brush with the colours of the panel's colour
\* attribute and the areas of its size attribute, the axes cleared (scatters and
\* legends gone), one scatter drawn and recorded as scatter_plot, the panel's
\* colorbar made on the first call and reused afterwards, and a size legend
\* added when the panel's legend is enabled.  legend_artists counts the legend
\* artists on the axes, legend_shown those of them that are visible.
Brushing_update_graph(self, graph_number) ==
    LET size_attr      == self.size_dropdown[graph_number]
        scale_factor   == self.size_slider[graph_number]
        size_data      == size_data_of(size_attr)
        size_scaled    == Brushing_scale(size_attr, scale_factor)
        default_colors == default_colors_of(self.color_dropdown[graph_number])
        fresh == Brush(table, default_colors, size_scaled)
    IN  [self EXCEPT
            !.brush[graph_number] =
                [fresh EXCEPT !.scatter_plot = new_scatter(default_colors)],
            !.collections[graph_number] = 1,
            !.color_bar[graph_number] = IF @ = 0 THEN 1 ELSE @,
            !.legend[graph_number] =
                IF self.legend_enabled[graph_number]
                THEN add_dynamic_size_legend(size_data, size_attr, scale_factor)
                ELSE no_legend,
            !.legend_artists[graph_number] =
                IF self.legend_enabled[graph_number] THEN 1 ELSE 0,
            !.legend_shown[graph_number] =
                IF self.legend_enabled[graph_number] THEN 1 ELSE 0]

\* update_data: both panels are redrawn
Brushing_update_data(self) ==
    Brushing_update_graph(Brushing_update_graph(self, 1), 2)

\* mutant of select: the other panel filters the rectangle by its own attributes
Brushing_select_own(self, eclick, erelease, graph) ==
    LET done == Brush_callback(self.brush[graph], self.collections[graph],
                               eclick, erelease,
                               self.x_dropdown[graph], self.y_dropdown[graph])
        own  == { i \in Rows :
                    /\ between(value(i, self.x_dropdown[other(graph)]),
                               sorted2(eclick[1], erelease[1])[1],
                               sorted2(eclick[1], erelease[1])[2])
                    /\ between(value(i, self.y_dropdown[other(graph)]),
                               sorted2(eclick[2], erelease[2])[1],
                               sorted2(eclick[2], erelease[2])[2]) }
    IN  [self EXCEPT
            !.brush[graph] = done.brush,
            !.collections[graph] = done.collections,
            !.brush[other(graph)] = Brush_update_colors(self.brush[other(graph)], own),
            !.collections[other(graph)] = @ + 1]

\* select: the dragged panel's Brush runs its callback, the other panel's Brush
\* is recoloured with the rows the callback selected and a further scatter is
\* drawn on the other panel's axes
Brushing_select(self, eclick, erelease, graph) ==
    LET done == Brush_callback(self.brush[graph], self.collections[graph],
                               eclick, erelease,
                               self.x_dropdown[graph], self.y_dropdown[graph])
        selected == IF done.brush.selected # {} THEN done.brush.selected ELSE {}
    IN  [self EXCEPT
            !.brush[graph] = done.brush,
            !.collections[graph] = done.collections,
            !.brush[other(graph)] = Brush_update_colors(self.brush[other(graph)], selected),
            !.collections[other(graph)] = @ + 1]

\* a pointer event of the linked view: inaxes is 1 or 2 for ax_1 / ax_2 and 0
\* for anywhere else, ind the markers scatter.contains(event) reports
BrushingEvents ==
    { [inaxes |-> a, ind |-> s, pos |-> p] :
        a \in {0, 1, 2}, s \in SUBSET Rows,
        p \in CursorSamples(brushing.geometry,
                             BrushingTooltipWidth, BrushingTooltipHeight) }

\* mutant of on_hover: the handler does not look at tooltip_enabled
Brushing_on_hover_always(self, event) ==
    IF event.inaxes \notin Graphs
    THEN [self EXCEPT !.tooltip = hide(self.tooltip)]
    ELSE LET g == event.inaxes
             scatter == self.brush[g].scatter_plot
         IN  IF ~scatter.present
             THEN [self EXCEPT !.tooltip = hide(self.tooltip)]
             ELSE IF event.ind # {}
             THEN LET hovered_index == Min(event.ind)
                  IN  [self EXCEPT
                          !.tooltip = show_at(self.tooltip,
                              tooltip_position(self.geometry, event.pos[1], event.pos[2],
                                               self.tooltip.width, self.tooltip.height)),
                          !.brush[g].scatter_plot.edgecolors =
                              [i \in Rows |-> IF i = hovered_index THEN "black" ELSE "white"],
                          !.brush[g].scatter_plot.linewidths =
                              [i \in Rows |-> IF i = hovered_index THEN LwBold ELSE LwThin]]
             ELSE [self EXCEPT
                      !.tooltip = hide(self.tooltip),
                      !.brush[g].scatter_plot.edgecolors = [i \in Rows |-> "white"],
                      !.brush[g].scatter_plot.linewidths = [i \in Rows |-> LwThin]]

Brushing_on_hover(self, event) ==
    IF ~self.tooltip_enabled
    THEN [self EXCEPT !.tooltip = hide(self.tooltip)]
    ELSE IF event.inaxes \notin Graphs
    THEN [self EXCEPT !.tooltip = hide(self.tooltip)]
    ELSE LET g == event.inaxes
             scatter == self.brush[g].scatter_plot
         IN  IF ~scatter.present
             THEN [self EXCEPT !.tooltip = hide(self.tooltip)]
             ELSE IF event.ind # {}
             THEN LET hovered_index == Min(event.ind)
                  IN  [self EXCEPT
                          !.tooltip = show_at(self.tooltip,
                              tooltip_position(self.geometry, event.pos[1], event.pos[2],
                                               self.tooltip.width, self.tooltip.height)),
                          !.brush[g].scatter_plot.edgecolors =
                              [i \in Rows |-> IF i = hovered_index THEN "black" ELSE "white"],
                          !.brush[g].scatter_plot.linewidths =
                              [i \in Rows |-> IF i = hovered_index THEN LwBold ELSE LwThin]]
             ELSE [self EXCEPT
                      !.tooltip = hide(self.tooltip),
                      !.brush[g].scatter_plot.edgecolors = [i \in Rows |-> "white"],
                      !.brush[g].scatter_plot.linewidths = [i \in Rows |-> LwThin]]

Brushing_toggle_tooltip(self) ==
    [self EXCEPT !.tooltip_enabled = ~self.tooltip_enabled]

\* mutant of toggle_legend: switching off flips the flag and leaves the legend
\* as it is drawn
Brushing_toggle_legend_no_hide(self, graph_number) ==
    LET enabled == ~self.legend_enabled[graph_number]
        flipped == [self EXCEPT !.legend_enabled[graph_number] = enabled]
    IN  IF enabled
        THEN [flipped EXCEPT
                 !.legend[graph_number] =
                     add_dynamic_size_legend(size_data_of(self.size_dropdown[graph_number]),
                                             self.size_dropdown[graph_number],
                                             self.size_slider[graph_number]),
                 !.legend_artists[graph_number] = @ + 1,
                 !.legend_shown[graph_number] = @ + 1]
        ELSE flipped

\* toggle_legend: switching on builds a legend and adds it to the axes, beside
\* whatever legend artists the axes already hold; switching off hides the legend
\* ax.get_legend() returns (the one built last) and leaves it on the axes
Brushing_toggle_legend(self, graph_number) ==
    LET enabled == ~self.legend_enabled[graph_number]
        flipped == [self EXCEPT !.legend_enabled[graph_number] = enabled]
    IN  IF enabled
        THEN [flipped EXCEPT
                 !.legend[graph_number] =
                     add_dynamic_size_legend(size_data_of(self.size_dropdown[graph_number]),
                                             self.size_dropdown[graph_number],
                                             self.size_slider[graph_number]),
                 !.legend_artists[graph_number] = @ + 1,
                 !.legend_shown[graph_number] = @ + 1]
        ELSE IF self.legend[graph_number].present
        THEN [flipped EXCEPT
                 !.legend[graph_number].visible = FALSE,
                 !.legend_shown[graph_number] =
                     IF self.legend[graph_number].visible THEN @ - 1 ELSE @]
        ELSE flipped

\* size_slider.setRange(1, 100), setValue(50)
SliderMin == 1

SliderMax == 100

SliderStart == 50

\* BrushingChart.__init__: the controls on their first entry, two empty Brush
\* objects, then update_data
BrushingInit ==
    Brushing_update_data(
        [ x_dropdown      |-> [g \in Graphs |-> Columns[1]],
          y_dropdown      |-> [g \in Graphs |-> Columns[1]],
          color_dropdown  |-> [g \in Graphs |-> Columns[1]],
          size_dropdown   |-> [g \in Graphs |-> Columns[1]],
          size_slider     |-> [g \in Graphs |-> SliderStart],
          tooltip_enabled |-> TRUE,
          legend_enabled  |-> [g \in Graphs |-> TRUE],
          legend          |-> [g \in Graphs |-> no_legend],
          legend_artists  |-> [g \in Graphs |-> 0],
          legend_shown    |-> [g \in Graphs |-> 0],
          color_bar       |-> [g \in Graphs |-> 0],
          brush           |-> [g \in Graphs |-> Brush(table, <<>>, <<>>)],
          collections     |-> [g \in Graphs |-> 0],
          tooltip         |-> InitTooltip(BrushingTooltipWidth, BrushingTooltipHeight),
          geometry        |-> FullScreenGeometry ])

Coords == 0 .. MaxCoord

Corners == Coords \X Coords

\* a dropdown's activated signal: the entry is set to one of columns, then
\* update_data runs
BrushingDropdown(columns) ==
    /\ \E g \in Graphs, column \in columns :
          \/ brushing' = Brushing_update_data([brushing EXCEPT !.x_dropdown[g] = column])
          \/ brushing' = Brushing_update_data([brushing EXCEPT !.y_dropdown[g] = column])
          \/ brushing' = Brushing_update_data([brushing EXCEPT !.color_dropdown[g] = column])
    /\ UNCHANGED <<bubble, clicks, map, join>>

\* the activated signal of a panel's size dropdown
BrushingSizeDropdown(columns) ==
    /\ \E g \in Graphs, column \in columns :
          brushing' = Brushing_update_data([brushing EXCEPT !.size_dropdown[g] = column])
    /\ UNCHANGED <<bubble, clicks, map, join>>

\* the valueChanged signal of a panel's size slider, moved to one of positions
BrushingSlider(positions) ==
    /\ \E g \in Graphs, position \in positions :
          /\ position # brushing.size_slider[g]
          /\ brushing' = Brushing_update_data([brushing EXCEPT !.size_slider[g] = position])
    /\ UNCHANGED <<bubble, clicks, map, join>>

\* a click on a panel's legend button
BrushingToggleLegend ==
    /\ \E g \in Graphs :
          /\ brushing.legend_enabled[g] \/ brushing.legend_artists[g] < MaxLegends
          /\ brushing' = Brushing_toggle_legend(brushing, g)
    /\ UNCHANGED <<bubble, clicks, map, join>>

\* a completed drag of the RectangleSelector of a panel, its corners in corners
BrushingSelect(corners) ==
    /\ \E graph \in Graphs, eclick \in corners, erelease \in corners :
          /\ brushing.collections[other(graph)] < MaxCollections
          /\ brushing' = Brushing_select(brushing, eclick, erelease, graph)
    /\ UNCHANGED <<bubble, clicks, map, join>>

BrushingHover ==
    /\ \E event \in BrushingEvents : brushing' = Brushing_on_hover(brushing, event)
    /\ UNCHANGED <<bubble, clicks, map, join>>

BrushingToggleTooltip ==
    /\ brushing' = Brushing_toggle_tooltip(brushing)
    /\ UNCHANGED <<bubble, clicks, map, join>>

(***************************************************************************)
(* Map view.                                                               *)
(***************************************************************************)
\* the boundary table (self.worldmap) after the score join: a sample of four
\* territories.  A geometry is its geom_type and its polygons, each with its
\* area and its representative point; score says whether the joined "Ladder
\* score" is not null, data whether self.data has a row for the country code.
\* The score is joined from the rows of self.data by that code, so a territory
\* with a score has a data row.
worldmap ==
    << [geom_type |-> "Polygon", score |-> TRUE, data |-> TRUE,
        polygons  |-> << [area |-> 3, point |-> <<10, 10>>] >>],
       [geom_type |-> "MultiPolygon", score |-> TRUE, data |-> TRUE,
        polygons  |-> << [area |-> 1, point |-> <<30, 40>>],
                         [area |-> 5, point |-> <<30, 10>>] >>],
       [geom_type |-> "Polygon", score |-> TRUE, data |-> TRUE,
        polygons  |-> << [area |-> 2, point |-> <<20, 30>>] >>],
       [geom_type |-> "Polygon", score |-> FALSE, data |-> FALSE,
        polygons  |-> << [area |-> 50, point |-> <<35, 45>>] >>] >>

Territories == 1 .. Len(worldmap)

\* geometry.area: the areas of the polygons added up
RECURSIVE sum_areas(_, _)
sum_areas(polygons, k) ==
    IF k = 0 THEN 0 ELSE polygons[k].area + sum_areas(polygons, k - 1)

geometry_area(t) == sum_areas(worldmap[t].polygons, Len(worldmap[t].polygons))

\* max(geometry.geoms, key=lambda p: p.area): the first polygon of largest area
largest_polygon(t) ==
    LET polygons == worldmap[t].polygons
        k == Min({ j \in 1 .. Len(polygons) :
                     \A m \in 1 .. Len(polygons) : polygons[m].area <= polygons[j].area })
    IN  polygons[k]

\* the point a label sits at and update_labels tests
representative_point(t) ==
    IF worldmap[t].geom_type = "Polygon"
    THEN worldmap[t].polygons[1].point
    ELSE largest_polygon(t).point

\* plot_labels: one text per territory with a score and a (Multi)Polygon geometry
visible_labels ==
    { t \in Territories : /\ worldmap[t].score
                          /\ worldmap[t].geom_type \in {"Polygon", "MultiPolygon"} }

\* the axis limits a viewport may take: xlim and ylim are <<low, high>>
XLimits == { <<0, 20>>, <<20, 40>>, <<0, 40>> }

YLimits == { <<0, 20>>, <<20, 50>>, <<0, 50>> }

\* the limits after plot_map: the whole map, margins(0)
FullView == [xlim |-> <<0, 40>>, ylim |-> <<0, 50>>]

\* shapely box(...).contains(point): the point is in the interior of the box
box_contains(xlim, ylim, point) ==
    /\ xlim[1] < point[1] /\ point[1] < xlim[2]
    /\ ylim[1] < point[2] /\ point[2] < ylim[2]

box_area(xlim, ylim) == (xlim[2] - xlim[1]) * (ylim[2] - ylim[1])

\* mutant of the visibility rule: the area test admits equality
label_visible_at_least(t, xlim, ylim) ==
    /\ box_contains(xlim, ylim, representative_point(t))
    /\ geometry_area(t) * 10000 >= box_area(xlim, ylim) * 15

\* mutant of the visibility rule: a label is shown while the territory is at
\* most the threshold fraction of the viewport
label_visible_at_most(t, xlim, ylim) ==
    /\ box_contains(xlim, ylim, representative_point(t))
    /\ geometry_area(t) * 10000 <= box_area(xlim, ylim) * 15

\* label_visible = point_in_visible_area and country_area > visible_area.area * 0.0015
\* (both sides times 10000)
label_visible(t, xlim, ylim) ==
    /\ box_contains(xlim, ylim, representative_point(t))
    /\ geometry_area(t) * 10000 > box_area(xlim, ylim) * 15

\* update_labels: every label's visibility from the limits of the axes
Map_update_labels(self) ==
    [self EXCEPT !.labels = [t \in visible_labels |-> label_visible(t, self.xlim, self.ylim)]]

Map_remove_highlight(self) ==
    IF self.highlight_patch # None
    THEN [self EXCEPT !.highlight_patch = None, !.overlays = @ - 1]
    ELSE self

\* highlight_country: the old overlay is removed, a new one is added to the axes
Map_highlight_country(self, t) ==
    LET cleared == IF self.highlight_patch # None THEN Map_remove_highlight(self) ELSE self
    IN  IF worldmap[t].geom_type \in {"Polygon", "MultiPolygon"}
        THEN [cleared EXCEPT !.highlight_patch = t, !.overlays = @ + 1]
        ELSE cleared

\* setFixedSize(375, 315) for a territory with a data row, (220, 60) without
MapTooltipWidth == 375

MapTooltipHeight == 315

MapSmallTooltipWidth == 220

MapSmallTooltipHeight == 60

\* a pointer event on the map canvas: inaxes says event.inaxes == self.ax, hits
\* is the set of territories whose geometry contains the cursor's data point
MapEvents ==
    { [inaxes |-> a, hits |-> h, pos |-> p] :
        a \in BOOLEAN, h \in {{}} \cup {{t} : t \in Territories},
        p \in CursorSamples(map.geometry, MapTooltipWidth, MapTooltipHeight) }

Map_on_hover(self, event) ==
    LET noted == IF self.navigate_mode = "ZOOM" THEN [self EXCEPT !.is_zooming = TRUE]
                                                  ELSE self
    IN  IF ~event.inaxes
        THEN Map_remove_highlight([noted EXCEPT !.tooltip = hide(noted.tooltip)])
        ELSE IF event.hits # {}
        THEN LET t == Min(event.hits)
                 w == IF worldmap[t].data THEN MapTooltipWidth ELSE MapSmallTooltipWidth
                 h == IF worldmap[t].data THEN MapTooltipHeight ELSE MapSmallTooltipHeight
                 sized == [noted.tooltip EXCEPT !.width = w, !.height = h]
             IN  Map_highlight_country(
                     [noted EXCEPT !.tooltip =
                         show_at(sized, tooltip_position(noted.geometry,
                                                         event.pos[1], event.pos[2], w, h))],
                     t)
        ELSE Map_remove_highlight([noted EXCEPT !.tooltip = hide(noted.tooltip)])

\* on_zoom, the view's handler of button_release_event
Map_on_zoom(self) ==
    IF self.navigate_mode = "ZOOM"
    THEN Map_update_labels([self EXCEPT !.is_zooming = FALSE])
    ELSE self

\* MapChart.__init__: plot_map, plot_labels and its update_labels, hidden tooltip
MapInit ==
    Map_update_labels(
        [ is_zooming      |-> FALSE,
          highlight_patch |-> None,
          overlays        |-> 0,
          xlim            |-> FullView.xlim,
          ylim            |-> FullView.ylim,
          navigate_mode   |-> "NONE",
          labels          |-> [t \in visible_labels |-> FALSE],
          tooltip         |-> InitTooltip(0, 0),
          geometry        |-> FullScreenGeometry ])

MapHover ==
    /\ \E event \in MapEvents : map' = Map_on_hover(map, event)
    /\ UNCHANGED <<bubble, clicks, brushing, join>>

\* the toolbar's pan and zoom buttons set the navigate mode of the axes
MapToolbarMode ==
    /\ \E mode \in {"NONE", "PAN", "ZOOM"} : map' = [map EXCEPT !.navigate_mode = mode]
    /\ UNCHANGED <<bubble, clicks, brushing, join>>

\* the canvas after a button_release_event whose drag box is xlim, ylim: the
\* handlers run in the order they were connected, on_zoom first, the toolbar's
\* (which applies the box in ZOOM mode and nothing in the other modes) second
Map_button_release(self, xlim, ylim) ==
    LET handled == Map_on_zoom(self)
    IN  IF self.navigate_mode = "ZOOM"
        THEN [handled EXCEPT !.xlim = xlim, !.ylim = ylim]
        ELSE handled

\* a mouse button released on the canvas: on_zoom was connected before the
\* toolbar was built, so it runs first and reads the limits of before the
\* gesture; in ZOOM mode the toolbar then sets the limits to the dragged box
MapButtonRelease ==
    /\ \E xlim \in XLimits, ylim \in YLimits : map' = Map_button_release(map, xlim, ylim)
    /\ UNCHANGED <<bubble, clicks, brushing, join>>

\* a drag in PAN mode: the toolbar moves the limits on every motion event
MapPanDrag ==
    /\ map.navigate_mode = "PAN"
    /\ \E xlim \in XLimits, ylim \in YLimits : map' = [map EXCEPT !.xlim = xlim, !.ylim = ylim]
    /\ UNCHANGED <<bubble, clicks, brushing, join>>

\* the toolbar's home button
MapHome ==
    /\ map' = [map EXCEPT !.xlim = FullView.xlim, !.ylim = FullView.ylim]
    /\ UNCHANGED <<bubble, clicks, brushing, join>>

MapNext ==
    \/ MapHover \/ MapToolbarMode \/ MapButtonRelease \/ MapPanDrag \/ MapHome
    \/ MainKeyPress

(***************************************************************************)
(* Country-code join of the loaders (BubbleChart.__init__, MapChart.__init__).*)
(***************************************************************************)
\* rows of the table the join is run on
MaxJoinRows == 2

\* a missing value of a column of codes (NaN)
null == "NaN"

\* manual_mapping
manual_mapping ==
    ("Taiwan Province of China" :> "TWN") @@
    ("Kosovo" :> "XKX") @@
    ("South Korea" :> "KOR") @@
    ("Moldova" :> "MDA") @@
    ("Vietnam" :> "VNM") @@
    ("Bolivia" :> "BOL") @@
    ("Russia" :> "RUS") @@
    ("Hong Kong S.A.R. of China" :> "HKG") @@
    ("Congo (Brazzaville)" :> "COG") @@
    ("Congo (Kinshasa)" :> "COD") @@
    ("Venezuela" :> "VEN") @@
    ("Laos" :> "LAO") @@
    ("Ivory Coast" :> "CIV") @@
    ("State of Palestine" :> "PSE") @@
    ("Iran" :> "IRN") @@
    ("Turkiye" :> "TUR") @@
    ("Tanzania" :> "TZA")

\* country names a row of the table may carry: one the lookup knows, three of
\* the alias table, one that neither knows
CountryNames == {"Finland", "Kosovo", "Russia", "Turkiye", "Somaliland region"}

\* records the lookup package may hold, <<name, alpha_3>>: the package has no
\* fixed content; where it lists Kosovo it does so under another code than
\* the alias table's
CountryRecords == { <<"Finland", "FIN">>, <<"Kosovo", "XKK">>, <<"Turkiye", "TUR">> }

\* {country.name: country.alpha_3 for country in pycountry.countries}
country_to_code(countries) ==
    [name \in {c[1] : c \in countries} |->
        (CHOOSE c \in countries : c[1] = name)[2]]

\* Series.map(dict): the dict's value for each entry, NaN where the dict has none
map_values(series, dict) ==
    [k \in DOMAIN series |->
        IF series[k] \in DOMAIN dict THEN dict[series[k]] ELSE null]

\* mutant of fillna: the other series wins wherever it has a value
fillna_overwrite(series, fill) ==
    [k \in DOMAIN series |-> IF fill[k] # null THEN fill[k] ELSE series[k]]

\* Series.fillna(fill): the value of the series fill where this one is missing
fillna(series, fill) ==
    [k \in DOMAIN series |-> IF series[k] = null THEN fill[k] ELSE series[k]]

\* the sequences of at most MaxJoinRows country names
RECURSIVE NameColumns(_)
NameColumns(n) ==
    IF n = 0 THEN {<<>>}
    ELSE NameColumns(n - 1)
           \cup { Append(column, name) : column \in { c \in NameColumns(n - 1) : Len(c) = n - 1 },
                                          name \in CountryNames }

\* the loader before the join: the lookup table built, the names read
JoinStart(countries, names) ==
    [ pc              |-> "read",
      country_to_code |-> country_to_code(countries),
      names           |-> names,
      codes           |-> [k \in DOMAIN names |-> null] ]

\* self.data['Country code'] = self.data['Country name'].map(country_to_code)
Join_map(self) ==
    [self EXCEPT !.pc = "mapped",
                 !.codes = map_values(self.names, self.country_to_code)]

\* self.data['Country code'] = self.data['Country code'].fillna(
\*     self.data['Country name'].map(manual_mapping))
Join_fillna(self) ==
    [self EXCEPT !.pc = "filled",
                 !.codes = fillna(self.codes, map_values(self.names, manual_mapping))]

\* the join as the constructors run it, on a sample table
JoinSample ==
    Join_fillna(Join_map(JoinStart({<<"Finland", "FIN">>}, <<"Finland", "Russia">>)))

JoinMap ==
    /\ join.pc = "read"
    /\ join' = Join_map(join)
    /\ UNCHANGED <<bubble, clicks, brushing, map>>

JoinFillna ==
    /\ join.pc = "mapped"
    /\ join' = Join_fillna(join)
    /\ UNCHANGED <<bubble, clicks, brushing, map>>

JoinNext == JoinMap \/ JoinFillna

(***************************************************************************)
(* Specifications.                                                         *)
(***************************************************************************)
Init ==
    /\ bubble = BubbleInit
    /\ clicks = NoClicks
    /\ brushing = BrushingInit
    /\ map = MapInit
    /\ join = JoinSample

\* the bubble view
SpecBubble == Init /\ [][BubbleNext]_vars

\* the linked view's brushing and re-binding.  Hovering and the tooltip toggle
\* write only the tooltip and the edge styling of a recorded scatter, which
\* neither select nor update_data reads, so they are left to SpecLinkedHover.
BrushNext == BrushingDropdown(ColumnSet) \/ BrushingSelect(Corners)

SpecBrush == Init /\ [][BrushNext]_vars

\* the linked view's hovering, with the gestures that replace the hovered
\* scatter: drags between the extreme corners, and dropdown activations that
\* re-pick the first column
ExtremeCorners == {<<0, 0>>, <<MaxCoord, MaxCoord>>}

LinkedHoverNext ==
    \/ BrushingHover
    \/ BrushingToggleTooltip
    \/ MainKeyPress
    \/ BrushingSelect(ExtremeCorners)
    \/ BrushingDropdown({Columns[1]})

SpecLinkedHover == Init /\ [][LinkedHoverNext]_vars

\* the per-row arrays of the bubble view and of the two Brush objects: clicks
\* (the cursor position plays no part in on_click, one position is drawn),
\* re-bindings of every dropdown, and drags whose two corners are the origin
OriginCorner == {<<0, 0>>}

ArraysNext ==
    \/ BubbleClickAt(OriginCorner)
    \/ BrushingDropdown(ColumnSet)
    \/ BrushingSelect(OriginCorner)

SpecArrays == Init /\ [][ArraysNext]_vars

\* slider positions the slider action moves to: the two ends and the start
SliderSamples == {SliderMin, SliderStart, SliderMax}

\* the linked view's size controls and legends, with drags at the origin
ControlsNext ==
    \/ BrushingSizeDropdown(ColumnSet)
    \/ BrushingSlider(SliderSamples)
    \/ BrushingToggleLegend
    \/ BrushingSelect(OriginCorner)

SpecControls == Init /\ [][ControlsNext]_vars

\* the country-code join on every lookup table and every column of names
JoinInit ==
    /\ bubble = BubbleInit
    /\ clicks = NoClicks
    /\ brushing = BrushingInit
    /\ map = MapInit
    /\ \E countries \in SUBSET CountryRecords, names \in NameColumns(MaxJoinRows) :
          join = JoinStart(countries, names)

SpecJoin == JoinInit /\ [][JoinNext]_vars

\* the map view
SpecMap == Init /\ [][MapNext]_vars

\* the three views together, every handler on every input
Next ==
    \/ BubbleNext
    \/ BrushingDropdown(ColumnSet) \/ BrushingSelect(Corners)
    \/ BrushingHover \/ BrushingToggleTooltip
    \/ BrushingSizeDropdown(ColumnSet) \/ BrushingSlider(SliderMin .. SliderMax)
    \/ BrushingToggleLegend
    \/ MapNext

Spec == Init /\ [][Next]_vars

(***************************************************************************)
(* Properties.                                                             *)
(***************************************************************************)
\* the rows inside the axis-aligned rectangle spanned by two corner points,
\* stated from the rectangle's smallest and largest coordinate on each axis
RectangleRows(a, b, x_attr, y_attr) ==
    { i \in Rows :
        /\ Min({a[1], b[1]}) <= value(i, x_attr) /\ value(i, x_attr) <= Max({a[1], b[1]})
        /\ Min({a[2], b[2]}) <= value(i, y_attr) /\ value(i, y_attr) <= Max({a[2], b[2]}) }

\* C1: whatever two corners a drag on a panel has, in either order, the rows
\* Brush.callback selects are exactly the rows whose x and y values lie in the
\* rectangle the corners span, bounds included; and the selection a Brush holds
\* is always empty or the content of some such rectangle.
BrushSelectsRectangle ==
    /\ \A graph \in Graphs, eclick \in Corners, erelease \in Corners :
          LET x_attr == brushing.x_dropdown[graph]
              y_attr == brushing.y_dropdown[graph]
              done   == Brush_callback(brushing.brush[graph], brushing.collections[graph],
                                       eclick, erelease, x_attr, y_attr)
          IN  \A i \in Rows :
                 i \in done.brush.selected <=>
                    /\ Min({eclick[1], erelease[1]}) <= value(i, x_attr)
                    /\ value(i, x_attr) <= Max({eclick[1], erelease[1]})
                    /\ Min({eclick[2], erelease[2]}) <= value(i, y_attr)
                    /\ value(i, y_attr) <= Max({eclick[2], erelease[2]})
    /\ \A graph \in Graphs :
          \/ brushing.brush[graph].selected = {}
          \/ \E a \in Corners, b \in Corners :
                brushing.brush[graph].selected =
                    RectangleRows(a, b, brushing.x_dropdown[graph], brushing.y_dropdown[graph])

\* a panel bound to two different attributes holds a selection that is neither
\* empty nor the whole table
BrushSelectsRectangleWitness ==
    \E graph \in Graphs :
        /\ brushing.x_dropdown[graph] # brushing.y_dropdown[graph]
        /\ brushing.brush[graph].selected \notin {{}, Rows}

\* C2: after a brush on a panel that selects a non-empty set S of rows, in both
\* panels a row of S has that panel's own colour-encoding value and every other
\* row is gray; S is the content of the rectangle under the dragged panel's
\* attributes.  In every state the two panels gray the same rows.
LinkedPanelsShareSelection ==
    /\ \A graph \in Graphs, eclick \in Corners, erelease \in Corners :
          LET after == Brushing_select(brushing, eclick, erelease, graph)
              S     == RectangleRows(eclick, erelease,
                                     brushing.x_dropdown[graph], brushing.y_dropdown[graph])
          IN  S # {} =>
                 \A p \in Graphs, i \in Rows :
                    after.brush[p].colors[i] =
                        IF i \in S THEN default_colors_of(brushing.color_dropdown[p])[i]
                                   ELSE gray
    /\ \A i \in Rows :
          (brushing.brush[1].colors[i] = gray) <=> (brushing.brush[2].colors[i] = gray)

\* panel 1 was brushed, panel 2 never was; panel 2 is bound to other attributes
\* and to another colour attribute, and grays exactly the rows panel 1 left out
LinkedPanelsShareSelectionWitness ==
    /\ brushing.brush[1].selected \notin {{}, Rows}
    /\ brushing.brush[2].selected = {}
    /\ brushing.color_dropdown[1] # brushing.color_dropdown[2]
    /\ brushing.x_dropdown[1] # brushing.x_dropdown[2]
    /\ \A i \in Rows :
          brushing.brush[2].colors[i] =
              IF i \in brushing.brush[1].selected
              THEN brushing.brush[2].default_colors[i] ELSE gray
    /\ \E i \in brushing.brush[1].selected :
          brushing.brush[1].colors[i] # brushing.brush[2].colors[i]

\* C3: a brush whose rectangle holds no row leaves both panels with their
\* original colours, whatever was selected before.
EmptyBrushRestoresColors ==
    \A graph \in Graphs, eclick \in Corners, erelease \in Corners :
        LET after == Brushing_select(brushing, eclick, erelease, graph)
        IN  RectangleRows(eclick, erelease,
                          brushing.x_dropdown[graph], brushing.y_dropdown[graph]) = {}
            => \A p \in Graphs :
                  /\ after.brush[p].colors = after.brush[p].default_colors
                  /\ after.brush[p].colors = default_colors_of(brushing.color_dropdown[p])

\* panel 2 holds a selection that grayed some rows, panel 1 was brushed after it
\* with a rectangle that holds nothing, and no row is gray any more
EmptyBrushRestoresColorsWitness ==
    /\ brushing.brush[2].selected \notin {{}, Rows}
    /\ brushing.brush[1].selected = {}
    /\ brushing.collections[2] > 1
    /\ \A p \in Graphs : brushing.brush[p].colors = brushing.brush[p].default_colors

\* C4: the same drag applied twice in a row to the same panel gives, after the
\* second application, the selection and the colours of both panels that the
\* first application gave.
BrushIsIdempotent ==
    \A graph \in Graphs, eclick \in Corners, erelease \in Corners :
        LET once  == Brushing_select(brushing, eclick, erelease, graph)
            twice == Brushing_select(once, eclick, erelease, graph)
        IN  \A p \in Graphs :
               /\ twice.brush[p].selected = once.brush[p].selected
               /\ twice.brush[p].colors = once.brush[p].colors

\* a state a brush has produced (rows are grayed) from which some drag gives
\* the same selection and colours again
BrushIsIdempotentWitness ==
    \E graph \in Graphs, eclick \in Corners, erelease \in Corners :
        LET again == Brushing_select(brushing, eclick, erelease, graph)
        IN  /\ brushing.brush[graph].selected \notin {{}, Rows}
            /\ brushing.brush[other(graph)].selected \notin {{}, brushing.brush[graph].selected}
            /\ brushing.collections[other(graph)] > 1
            /\ \A p \in Graphs :
                  /\ again.brush[p].selected = brushing.brush[p].selected
                  /\ again.brush[p].colors = brushing.brush[p].colors

\* C5: after two clicks on the same row, with nothing but hovers (and clicks
\* that hit nothing) in between, the row's stored border colour, border width
\* and membership in selected_indices are what they were before the first.
ClickTwiceRestores ==
    clicks.count = 2 => RowStyle(bubble, clicks.row) = clicks.before

\* a selected row was clicked twice and is selected again, while another row
\* shows the hover highlight
ClickTwiceRestoresWitness ==
    /\ clicks.count = 2
    /\ clicks.before = <<"red", LwBold, TRUE>>
    /\ \E j \in Rows : bubble.scatter.edgecolors[j] = "black"

\* C6: a click that hits row i makes it red with width 2 if it was not selected
\* and white with width 0.5 if it was, and leaves the stored colour, width and
\* membership of every other row alone; a click that hits no marker, or lies
\* outside the axes, changes nothing.
ClickTogglesOnlyHitRow ==
    \A event \in BubbleEvents :
        LET after == Bubble_on_click(bubble, event)
        IN  IF event.inaxes /\ event.ind # {}
            THEN LET i == Min(event.ind)
                 IN  /\ i \notin bubble.selected_indices
                            => RowStyle(after, i) = <<"red", LwBold, TRUE>>
                     /\ i \in bubble.selected_indices
                            => RowStyle(after, i) = <<"white", LwThin, FALSE>>
                     /\ \A j \in Rows \ {i} : RowStyle(after, j) = RowStyle(bubble, j)
            ELSE after = bubble

\* clicks have selected one row and left another one white
ClickTogglesOnlyHitRowWitness ==
    \E i \in Rows, j \in Rows :
        /\ RowStyle(bubble, i) = <<"red", LwBold, TRUE>>
        /\ RowStyle(bubble, j) = <<"white", LwThin, FALSE>>
        /\ bubble.scatter.edgecolors[i] = "red"

\* a tooltip's rectangle lies in the window of its view
InWindow(tooltip, window_geometry) ==
    /\ tooltip.x >= 0 /\ tooltip.y >= 0
    /\ tooltip.x + tooltip.width <= window_geometry.width
    /\ tooltip.y + tooltip.height <= window_geometry.height

\* C7: wherever in the window the cursor is on a hover hit, the tooltip is
\* moved to a place where its whole rectangle is inside the window.
TooltipStaysInWindow ==
    /\ \A event \in BubbleEvents :
          (event.inaxes /\ event.ind # {}) =>
             LET after == Bubble_on_hover(bubble, event)
             IN  after.tooltip.visible /\ InWindow(after.tooltip, after.geometry)
    /\ \A event \in BrushingEvents :
          (brushing.tooltip_enabled /\ event.inaxes \in Graphs /\ event.ind # {}) =>
             LET after == Brushing_on_hover(brushing, event)
             IN  after.tooltip.visible /\ InWindow(after.tooltip, after.geometry)
    /\ \A event \in MapEvents :
          (event.inaxes /\ event.hits # {}) =>
             LET after == Map_on_hover(map, event)
             IN  after.tooltip.visible /\ InWindow(after.tooltip, after.geometry)

\* the rows of a scatter drawn with the hover highlight (black border)
Highlighted(edgecolors) == { i \in Rows : edgecolors[i] = "black" }

\* C8: at any time at most one row of the bubble view, at most one row of the
\* linked view (its two panels taken together) and at most one territory of
\* the map carries the hover highlight.
AtMostOneHoverHighlight ==
    /\ Cardinality(Highlighted(bubble.scatter.edgecolors)) <= 1
    /\ Cardinality(Highlighted(brushing.brush[1].scatter_plot.edgecolors))
         + Cardinality(Highlighted(brushing.brush[2].scatter_plot.edgecolors)) <= 1
    /\ map.overlays <= 1

\* a pointer-move event that hits nothing
BubbleMiss(event) == ~event.inaxes \/ event.ind = {}

BrushingMiss(event) == event.inaxes \notin Graphs \/ event.ind = {}

MapMiss(event) == ~event.inaxes \/ event.hits = {}

\* C9: in each view, a pointer move that hits no marker or territory, inside
\* or outside the axes, hides the tooltip and leaves no hover highlight.
HoverMissRevertsHighlight ==
    /\ \A event \in BubbleEvents :
          BubbleMiss(event) =>
             LET after == Bubble_on_hover(bubble, event)
             IN  /\ ~after.tooltip.visible
                 /\ Highlighted(after.scatter.edgecolors) = {}
    /\ \A event \in BrushingEvents :
          (brushing.tooltip_enabled /\ BrushingMiss(event)) =>
             LET after == Brushing_on_hover(brushing, event)
             IN  /\ ~after.tooltip.visible
                 /\ \A g \in Graphs : Highlighted(after.brush[g].scatter_plot.edgecolors) = {}
    /\ \A event \in MapEvents :
          MapMiss(event) =>
             LET after == Map_on_hover(map, event)
             IN  /\ ~after.tooltip.visible
                 /\ after.highlight_patch = None
                 /\ after.overlays = 0

\* C10: update_labels shows a territory's label exactly when the territory's
\* representative point is inside the viewport and the territory's area is
\* more than 0.15% of the viewport's area, and hides it otherwise; the labels
\* on screen are always those of some viewport.
LabelShownIffInViewAndLarge ==
    /\ \A t \in visible_labels :
          LET point   == representative_point(t)
              width   == map.xlim[2] - map.xlim[1]
              height  == map.ylim[2] - map.ylim[1]
              inside  == /\ map.xlim[1] < point[1] /\ point[1] < map.xlim[2]
                         /\ map.ylim[1] < point[2] /\ point[2] < map.ylim[2]
          IN  Map_update_labels(map).labels[t]
                 <=> (inside /\ 10000 * geometry_area(t) > 15 * width * height)
    /\ \E xlim \in XLimits, ylim \in YLimits :
          \A t \in visible_labels :
             map.labels[t] <=>
                /\ xlim[1] < representative_point(t)[1] /\ representative_point(t)[1] < xlim[2]
                /\ ylim[1] < representative_point(t)[2] /\ representative_point(t)[2] < ylim[2]
                /\ 10000 * geometry_area(t) > 15 * (xlim[2] - xlim[1]) * (ylim[2] - ylim[1])

\* on_zoom has recomputed the labels on a zoomed-in viewport: the first
\* territory's label, hidden on the whole map, is shown and another is hidden
LabelShownIffInViewAndLargeWitness ==
    /\ map.xlim = <<0, 20>>
    /\ map.labels[1]
    /\ ~map.labels[2]

\* the labels on screen are the visibility rule evaluated on the current limits
LabelsMatchViewport(self) ==
    \A t \in visible_labels : self.labels[t] <=> label_visible(t, self.xlim, self.ylim)

\* C11: once a pan or zoom gesture ends (the mouse button is released), every
\* label's visibility is the visibility rule evaluated on the viewport the
\* gesture has left.
LabelsFollowPanAndZoom ==
    \A xlim \in XLimits, ylim \in YLimits :
        LabelsMatchViewport(Map_button_release(map, xlim, ylim))

\* the viewports inside the viewport xlim, ylim
SubViewports(xlim, ylim) ==
    { v \in XLimits \X YLimits :
        /\ xlim[1] <= v[1][1] /\ v[1][2] <= xlim[2]
        /\ ylim[1] <= v[2][1] /\ v[2][2] <= ylim[2] }

\* what update_labels gives label t when the limits are xlim, ylim
LabelAfterUpdate(t, xlim, ylim) ==
    Map_update_labels([map EXCEPT !.xlim = xlim, !.ylim = ylim]).labels[t]

\* C12 as stated: a label that update_labels shows for the current viewport V
\* is shown for every viewport V' contained in V.
ZoomInNeverHidesLabel ==
    \A t \in visible_labels, v \in SubViewports(map.xlim, map.ylim) :
        LabelAfterUpdate(t, map.xlim, map.ylim) => LabelAfterUpdate(t, v[1], v[2])

\* C12: a label that update_labels shows for the current viewport V is shown
\* for every viewport V' contained in V that still contains the territory's
\* representative point; the area test alone never hides a label on zooming in.
ZoomInKeepsLabelInView ==
    \A t \in visible_labels, v \in SubViewports(map.xlim, map.ylim) :
        /\ (LabelAfterUpdate(t, map.xlim, map.ylim)
               /\ box_contains(v[1], v[2], representative_point(t)))
               => LabelAfterUpdate(t, v[1], v[2])
        /\ geometry_area(t) * 10000 > box_area(map.xlim, map.ylim) * 15
               => geometry_area(t) * 10000 > box_area(v[1], v[2]) * 15

\* the view was zoomed in to a quarter that holds the second territory's point,
\* update_labels has run on it, and the label shown on the whole map is shown
ZoomInKeepsLabelInViewWitness ==
    /\ map.xlim = <<20, 40>> /\ map.ylim = <<0, 20>>
    /\ label_visible(2, FullView.xlim, FullView.ylim)
    /\ map.labels[2]
    /\ ~map.labels[3]

\* the per-row arrays of a Brush have one entry per row of the Brush's table
BrushArraysMatch(brush) ==
    /\ DOMAIN brush.colors = RowsOf(brush.data)
    /\ DOMAIN brush.default_colors = RowsOf(brush.data)
    /\ Len(brush.data) = NumRows

\* the per-row arrays of the bubble view have one entry per row of its table
BubbleArraysMatch(chart) ==
    /\ DOMAIN chart.edgecolors = Rows
    /\ DOMAIN chart.linewidths = Rows
    /\ DOMAIN chart.scatter.edgecolors = Rows
    /\ DOMAIN chart.scatter.linewidths = Rows

\* C13: in every reachable state edgecolors and linewidths of the bubble view
\* have one entry per row of its data, and colors and default_colors of each
\* Brush one entry per row of that Brush's data; a click, a hover, a re-render
\* and a brush callback, also one repeated on the same Brush, keep it so.
VisualArraysMatchRows ==
    /\ BubbleArraysMatch(bubble)
    /\ \A event \in BubbleEventsAt(OriginCorner) :
          /\ BubbleArraysMatch(Bubble_on_click(bubble, event))
          /\ BubbleArraysMatch(Bubble_on_hover(bubble, event))
    /\ \A attribute \in BubbleAttributes :
          BubbleArraysMatch(Bubble_update_data(bubble, attribute))
    /\ \A g \in Graphs : BrushArraysMatch(brushing.brush[g])
    /\ \A g \in Graphs, eclick \in ExtremeCorners, erelease \in ExtremeCorners :
          LET once  == Brushing_select(brushing, eclick, erelease, g)
              twice == Brushing_select(once, erelease, eclick, g)
          IN  \A p \in Graphs : /\ BrushArraysMatch(once.brush[p])
                                /\ BrushArraysMatch(twice.brush[p])

\* a row of the bubble view is selected, and a Brush bound to two different
\* columns has run its callback more than once and grays some rows
VisualArraysMatchRowsWitness ==
    /\ bubble.selected_indices # {}
    /\ \E g \in Graphs :
          /\ brushing.x_dropdown[g] # brushing.y_dropdown[g]
          /\ brushing.collections[other(g)] > 1
          /\ \E i \in Rows : brushing.brush[g].colors[i] = gray

\* the linked view after one control of panel g was set anew: a dropdown
\* activated on any column, or the slider moved to another position
Rebindings(self, g) ==
    { Brushing_update_data([self EXCEPT !.x_dropdown[g] = c]) : c \in ColumnSet }
    \cup { Brushing_update_data([self EXCEPT !.y_dropdown[g] = c]) : c \in ColumnSet }
    \cup { Brushing_update_data([self EXCEPT !.color_dropdown[g] = c]) : c \in ColumnSet }
    \cup { Brushing_update_data([self EXCEPT !.size_dropdown[g] = c]) : c \in ColumnSet }
    \cup { Brushing_update_data([self EXCEPT !.size_slider[g] = v]) :
               v \in SliderSamples \ {self.size_slider[g]} }

\* C14: re-binding a dropdown of one panel, or moving its size slider, leaves
\* the other panel's Brush as it was: its selection, its colours and the
\* scatter it recorded.
RebindRedrawsOnePanel ==
    \A g \in Graphs :
        \A after \in Rebindings(brushing, g) :
            after.brush[other(g)] = brushing.brush[other(g)]

\* C15: each view holds at most one colorbar, at most one size legend and at
\* most one highlight overlay, whatever re-renders, legend toggles and hovers
\* have happened.
ArtistsDoNotAccumulate ==
    /\ bubble.cbar <= 1
    /\ bubble.size_legend_axes <= 1
    /\ \A g \in Graphs : /\ brushing.color_bar[g] <= 1
                         /\ brushing.legend_artists[g] <= 1
    /\ map.overlays <= 1

\* the rows a Brush draws gray
GrayRows(brush) == { i \in DOMAIN brush.colors : brush.colors[i] = gray }

\* C16: a re-render triggered by an attribute change or a scale change leaves
\* the bubble view's click selection, and each linked panel's brush selection
\* with the graying derived from it, as they were before the re-render.
SelectionsSurviveRerender ==
    /\ \A attribute \in BubbleAttributes :
          LET after == Bubble_update_data(bubble, attribute)
          IN  /\ after.selected_indices = bubble.selected_indices
              /\ after.edgecolors = bubble.edgecolors
              /\ after.scatter.edgecolors = bubble.edgecolors
    /\ \A g \in Graphs :
          \A after \in Rebindings(brushing, g) :
              \A p \in Graphs :
                  /\ after.brush[p].selected = brushing.brush[p].selected
                  /\ GrayRows(after.brush[p]) = GrayRows(brushing.brush[p])

\* the k-th smallest (k = 1 ..) of the values of a column, repetitions counted
KthSmallest(column, k) ==
    CHOOSE v \in {column[r] : r \in DOMAIN column} :
        /\ Cardinality({r \in DOMAIN column : column[r] < v}) < k
        /\ k <= Cardinality({r \in DOMAIN column : column[r] <= v})

\* twice the median of the values of a column
TwiceMedian(column) ==
    LET n == Cardinality(DOMAIN column)
    IN  IF n % 2 = 1
        THEN 2 * KthSmallest(column, (n + 1) \div 2)
        ELSE KthSmallest(column, n \div 2) + KthSmallest(column, n \div 2 + 1)

ColumnMin(column) == Min({column[r] : r \in DOMAIN column})

ColumnMax(column) == Max({column[r] : r \in DOMAIN column})

\* a legend value (a fraction) is half of twice
IsHalfOf(size_value, twice) == 2 * size_value[1] = twice * size_value[2]

\* C17 as stated: the three values of a size legend are the minimum, the
\* median and the maximum of the size attribute over the rows.
LegendShowsMinMedianMax ==
    /\ IsHalfOf(bubble.size_legend.size_values[0], 2 * ColumnMin(pop_est))
    /\ IsHalfOf(bubble.size_legend.size_values[1], TwiceMedian(pop_est))
    /\ IsHalfOf(bubble.size_legend.size_values[2], 2 * ColumnMax(pop_est))
    /\ \A g \in Graphs :
          brushing.legend[g].present =>
             LET column == size_data_of(brushing.size_dropdown[g])
             IN  /\ IsHalfOf(brushing.legend[g].size_values[0], 2 * ColumnMin(column))
                 /\ IsHalfOf(brushing.legend[g].size_values[1], TwiceMedian(column))
                 /\ IsHalfOf(brushing.legend[g].size_values[2], 2 * ColumnMax(column))

\* the three values of a legend are the smallest value of the column, the
\* largest, and the point halfway between the two
MinMidpointMax(size_values, column) ==
    /\ DOMAIN size_values = 0 .. 2
    /\ IsHalfOf(size_values[0], 2 * ColumnMin(column))
    /\ IsHalfOf(size_values[1], ColumnMin(column) + ColumnMax(column))
    /\ IsHalfOf(size_values[2], 2 * ColumnMax(column))

\* C17: a size legend shows three markers whose values are the minimum of the
\* size attribute over the rows, the maximum, and the midpoint of the two
\* (min + max) / 2; so for the legend on screen, for the one a re-render builds
\* and for the one the legend button builds.
LegendShowsMinMidpointMax ==
    /\ MinMidpointMax(bubble.size_legend.size_values, pop_est)
    /\ \A attribute \in BubbleAttributes :
          MinMidpointMax(Bubble_update_data(bubble, attribute).size_legend.size_values, pop_est)
    /\ \A g \in Graphs :
          /\ brushing.legend[g].present =>
                MinMidpointMax(brushing.legend[g].size_values,
                               size_data_of(brushing.size_dropdown[g]))
          /\ ~brushing.legend_enabled[g] =>
                MinMidpointMax(Brushing_toggle_legend(brushing, g).legend[g].size_values,
                               size_data_of(brushing.size_dropdown[g]))

\* panel 1 is sized by the score column and its legend, switched off and on
\* again, shows that column's values; the bubble legend's middle value is not
\* the median of the populations
LegendShowsMinMidpointMaxWitness ==
    /\ brushing.size_dropdown[1] = Columns[2]
    /\ brushing.legend[1].visible
    /\ brushing.legend_artists[1] > 1
    /\ ~IsHalfOf(bubble.size_legend.size_values[1], TwiceMedian(pop_est))

\* equality of two fractions
EqQ(a, b) == a[1] * b[2] = b[1] * a[2]

\* a fraction times, and minus, a whole number
TimesQ(a, n) == <<a[1] * n, a[2]>>

MinusQ(a, n) == <<a[1] - n * a[2], a[2]>>

\* the rows holding the smallest and the largest value of a column
RowsAtMin(size_attr) ==
    { i \in Rows : \A r \in Rows : value(i, size_attr) <= value(r, size_attr) }

RowsAtMax(size_attr) ==
    { i \in Rows : \A r \in Rows : value(i, size_attr) >= value(r, size_attr) }

\* the areas scale gives are linear in the size attribute: the area above the
\* smallest row's grows by the same amount per unit of the attribute
ScaleIsLinear(size_attr, scale_factor) ==
    LET area == Brushing_scale(size_attr, scale_factor)
    IN  \A lo \in RowsAtMin(size_attr), hi \in RowsAtMax(size_attr), i \in Rows :
            (area[i][1] - area[lo][1]) * (value(hi, size_attr) - value(lo, size_attr))
              = (area[hi][1] - area[lo][1]) * (value(i, size_attr) - value(lo, size_attr))

\* the area of the smallest row is the same for every scale factor
ScaleMinIsFixed(size_attr) ==
    \A lo \in RowsAtMin(size_attr), scale_factor \in SliderMin .. SliderMax :
        EqQ(Brushing_scale(size_attr, scale_factor)[lo],
            Brushing_scale(size_attr, SliderMin)[lo])

\* C18 as stated: for the size attribute a panel is bound to, scale is linear
\* in the attribute, gives the smallest row the same area for every scale
\* factor 1..100, and gives the largest row an area proportional to the scale
\* factor.
ScaleMaxIsProportional ==
    \A g \in Graphs :
        LET size_attr == brushing.size_dropdown[g]
        IN  /\ brushing.brush[g].sizes = Brushing_scale(size_attr, brushing.size_slider[g])
            /\ ScaleIsLinear(size_attr, brushing.size_slider[g])
            /\ ScaleMinIsFixed(size_attr)
            /\ \A hi \in RowsAtMax(size_attr), scale_factor \in SliderMin .. SliderMax :
                   EqQ(Brushing_scale(size_attr, scale_factor)[hi],
                       TimesQ(Brushing_scale(size_attr, 1)[hi], scale_factor))

\* C18: for the size attribute a panel is bound to (its values not all equal),
\* scale is linear in the attribute and gives the smallest row the area min_r
\* for every scale factor 1..100; what is proportional to the scale factor is
\* the largest row's area above min_r, (max_r - min_r) * scale / 50, which makes
\* the largest area max_r at scale 50.
ScaleSpanIsProportional ==
    \A g \in Graphs :
        LET size_attr == brushing.size_dropdown[g]
        IN  /\ brushing.brush[g].sizes = Brushing_scale(size_attr, brushing.size_slider[g])
            /\ ScaleIsLinear(size_attr, brushing.size_slider[g])
            /\ ScaleMinIsFixed(size_attr)
            /\ \A lo \in RowsAtMin(size_attr) :
                   EqQ(brushing.brush[g].sizes[lo], <<min_r, 1>>)
            /\ \A hi \in RowsAtMax(size_attr), scale_factor \in SliderMin .. SliderMax :
                   /\ EqQ(MinusQ(Brushing_scale(size_attr, scale_factor)[hi], min_r),
                          TimesQ(MinusQ(Brushing_scale(size_attr, 1)[hi], min_r),
                                 scale_factor))
                   /\ EqQ(TimesQ(MinusQ(Brushing_scale(size_attr, scale_factor)[hi], min_r),
                                 ScaleUnit),
                          <<(max_r - min_r) * scale_factor, 1>>)
            /\ \A hi \in RowsAtMax(size_attr) :
                   EqQ(Brushing_scale(size_attr, ScaleUnit)[hi], <<max_r, 1>>)

\* panel 2 is sized by the score column with its slider at the right end: its
\* largest marker has area 50 + 19 * 100 and its smallest 50
ScaleSpanIsProportionalWitness ==
    /\ brushing.size_dropdown[2] = Columns[2]
    /\ brushing.size_slider[2] = SliderMax
    /\ \E lo \in Rows, hi \in Rows :
          /\ EqQ(brushing.brush[2].sizes[lo], <<min_r, 1>>)
          /\ EqQ(brushing.brush[2].sizes[hi],
                 <<min_r + ((max_r - min_r) \div ScaleUnit) * SliderMax, 1>>)

\* C19: after the join a row's code is the lookup's code when the lookup has
\* the row's country name, otherwise the alias table's code; a name of the
\* alias table always gets a code, and a row is left without a code only if
\* its name is in neither table.
JoinPrefersLookupThenAlias ==
    join.pc = "filled" =>
        \A k \in DOMAIN join.names :
            LET name == join.names[k]
            IN  /\ name \in DOMAIN join.country_to_code
                      => join.codes[k] = join.country_to_code[name]
                /\ (name \notin DOMAIN join.country_to_code /\ name \in DOMAIN manual_mapping)
                      => join.codes[k] = manual_mapping[name]
                /\ name \in DOMAIN manual_mapping => join.codes[k] # null
                /\ join.codes[k] = null
                      => (name \notin DOMAIN join.country_to_code
                            /\ name \notin DOMAIN manual_mapping)

\* a joined table with a row the lookup resolved although the alias table lists
\* it under another code, and a row left without a code
JoinPrefersLookupThenAliasWitness ==
    /\ join.pc = "filled"
    /\ \E k \in DOMAIN join.names :
          /\ join.names[k] \in DOMAIN manual_mapping
          /\ join.codes[k] # manual_mapping[join.names[k]]
    /\ \E k \in DOMAIN join.names : join.codes[k] = null

\* C20: in the bubble view selected_indices is exactly the set of rows whose
\* stored edge colour is red, a red row has stored width 2 and every other row
\* is white with width 0.5; so a click on a red row always finds its index in
\* the set it removes it from.
SelectionMatchesRedRows ==
    /\ bubble.selected_indices = { i \in Rows : bubble.edgecolors[i] = "red" }
    /\ \A i \in Rows :
          IF bubble.edgecolors[i] = "red"
          THEN bubble.linewidths[i] = LwBold
          ELSE bubble.edgecolors[i] = "white" /\ bubble.linewidths[i] = LwThin
    /\ \A event \in BubbleEvents :
          (event.inaxes /\ event.ind # {} /\ bubble.edgecolors[Min(event.ind)] = "red")
              => Min(event.ind) \in bubble.selected_indices

\* after clicks, an attribute-button change and a hover: one row is selected,
\* another is not, and a third shows the hover highlight on the scatter
SelectionMatchesRedRowsWitness ==
    /\ bubble.x_attribute # BubbleInit.x_attribute
    /\ bubble.selected_indices \notin {{}, Rows}
    /\ clicks.count = 2
    /\ \E j \in Rows : bubble.scatter.edgecolors[j] = "black"

\* C21: after any sequence of brush gestures each panel's axes hold exactly one
\* scatter collection, that collection is the one the panel's Brush records as
\* scatter_plot (the one on_hover hit-tests and restyles), and it is drawn with
\* the Brush's current colors.
OneScatterPerPanel ==
    \A g \in Graphs :
        /\ brushing.collections[g] = 1
        /\ brushing.brush[g].scatter_plot.present
        /\ brushing.brush[g].scatter_plot.attached
        /\ brushing.brush[g].scatter_plot.c = brushing.brush[g].colors

\* the legend's marker for each of its three values has the area sizes gives
\* to the rows holding that value of the size attribute
LegendAgreesWith(legend, sizes, size_attr) ==
    \A k \in DOMAIN legend.size_values, i \in Rows :
        EqQ(legend.size_values[k], <<value(i, size_attr), 1>>)
            => EqQ(legend.size_markers[k], sizes[i])

\* C22: in the linked view, for every scale factor 1..100 and each of the three
\* legend values, the marker area the size legend draws for the value equals the
\* marker area scale gives to a row with that size value; so for the legend and
\* the scatter a panel shows, and for those any slider position would give.
LegendMatchesScatter ==
    \A g \in Graphs :
        LET size_attr == brushing.size_dropdown[g]
        IN  /\ brushing.legend[g].present =>
                  LegendAgreesWith(brushing.legend[g], brushing.brush[g].sizes, size_attr)
            /\ \A scale_factor \in SliderMin .. SliderMax :
                  LegendAgreesWith(
                      add_dynamic_size_legend(size_data_of(size_attr), size_attr, scale_factor),
                      Brushing_scale(size_attr, scale_factor), size_attr)

\* a panel shows a size legend: some legend artist on its axes is visible
ShowsLegend(self, g) == self.legend_shown[g] > 0

\* C23: after any sequence of legend toggles, control changes and brush
\* gestures a panel shows a visible size legend exactly when its legend_enabled
\* flag is true (the legend ax.get_legend() returns being the visible one), and
\* two toggles in a row restore the flag and the legend's visibility.
LegendVisibleIffEnabled ==
    \A g \in Graphs :
        /\ ShowsLegend(brushing, g) <=> brushing.legend_enabled[g]
        /\ (brushing.legend[g].present /\ brushing.legend[g].visible)
               <=> brushing.legend_enabled[g]
        /\ brushing.legend_shown[g] <= 1
        /\ LET once  == Brushing_toggle_legend(brushing, g)
               twice == Brushing_toggle_legend(once, g)
           IN  /\ twice.legend_enabled[g] = brushing.legend_enabled[g]
               /\ ShowsLegend(twice, g) <=> ShowsLegend(brushing, g)
               /\ ShowsLegend(once, g) <=> ~ShowsLegend(brushing, g)

\* panel 1's legend was switched off and is hidden on its axes, panel 2's was
\* switched off and on again (a hidden and a visible legend), with the slider
\* of panel 1 moved and a drag done since the last redraw
LegendVisibleIffEnabledWitness ==
    /\ ~brushing.legend_enabled[1]
    /\ brushing.legend_artists[1] = 1
    /\ brushing.legend_shown[1] = 0
    /\ brushing.legend_enabled[2]
    /\ brushing.legend_artists[2] = 2
    /\ brushing.legend_shown[2] = 1
    /\ brushing.size_slider[1] # SliderStart
    /\ \E g \in Graphs : brushing.collections[g] > 1

\* the edge colours and widths of the markers of the two panels
EdgeStyles(self) ==
    [g \in Graphs |-> <<self.brush[g].scatter_plot.edgecolors,
                        self.brush[g].scatter_plot.linewidths>>]

\* C24: while the linked view's tooltip is disabled, every hover event leaves
\* the tooltip hidden and the edge colour and width of every marker of both
\* panels as they were; two calls of toggle_tooltip restore tooltip_enabled.
DisabledTooltipIgnoresHover ==
    /\ ~brushing.tooltip_enabled =>
          \A event \in BrushingEvents :
              LET after == Brushing_on_hover(brushing, event)
              IN  /\ ~after.tooltip.visible
                  /\ EdgeStyles(after) = EdgeStyles(brushing)
                  /\ after.brush = brushing.brush
    /\ Brushing_toggle_tooltip(Brushing_toggle_tooltip(brushing)).tooltip_enabled
          = brushing.tooltip_enabled
    /\ Brushing_toggle_tooltip(brushing).tooltip_enabled # brushing.tooltip_enabled

\* the tooltip was disabled while it was on screen and a marker of panel 1
\* carried the hover highlight; a hover that hits another marker of panel 1
\* hides the tooltip and leaves the highlight where it was
DisabledTooltipIgnoresHoverWitness ==
    /\ ~brushing.tooltip_enabled
    /\ brushing.tooltip.visible
    /\ \E i \in Rows, event \in BrushingEvents :
          /\ brushing.brush[1].scatter_plot.edgecolors[i] = "black"
          /\ brushing.brush[1].scatter_plot.linewidths[i] = LwBold
          /\ event.inaxes = 1
          /\ event.ind # {}
          /\ i \notin event.ind
          /\ ~Brushing_on_hover(brushing, event).tooltip.visible
          /\ Brushing_on_hover(brushing, event).brush[1].scatter_plot.edgecolors[i] = "black"

\* C25: a hover event of the bubble view never changes the stored edgecolors,
\* linewidths or selected_indices; a hovered row that is selected (red) is
\* still drawn red with width 2, a hovered row that is not selected is drawn
\* black with width 2, and every other row is drawn as stored; so a row drawn
\* black is never a selected one.
HoverKeepsStoredStyles ==
    /\ \A event \in BubbleEvents :
          LET after == Bubble_on_hover(bubble, event)
          IN  /\ after.edgecolors = bubble.edgecolors
              /\ after.linewidths = bubble.linewidths
              /\ after.selected_indices = bubble.selected_indices
              /\ (event.inaxes /\ event.ind # {}) =>
                    LET hovered_index == Min(event.ind)
                    IN  /\ after.scatter.linewidths[hovered_index] = LwBold
                        /\ after.scatter.edgecolors[hovered_index] =
                               IF hovered_index \in bubble.selected_indices THEN "red"
                                                                             ELSE "black"
                        /\ \A j \in Rows \ {hovered_index} :
                               /\ after.scatter.edgecolors[j] = bubble.edgecolors[j]
                               /\ after.scatter.linewidths[j] = bubble.linewidths[j]
    /\ \A i \in Rows :
          bubble.scatter.edgecolors[i] = "black" => i \notin bubble.selected_indices
    /\ \A i \in bubble.selected_indices :
          /\ bubble.scatter.edgecolors[i] = "red"
          /\ bubble.scatter.linewidths[i] = LwBold

\* a row is selected and drawn red, an unselected row is drawn black by the
\* hover that hit it, and a hover that hits the two together (the selected one
\* first) leaves the selected row red and draws no row black
HoverKeepsStoredStylesWitness ==
    \E i \in bubble.selected_indices, j \in Rows, event \in BubbleEvents :
        /\ i < j
        /\ bubble.scatter.edgecolors[i] = "red"
        /\ bubble.scatter.edgecolors[j] = "black"
        /\ bubble.scatter.linewidths[j] = LwBold
        /\ bubble.linewidths[j] = LwThin
        /\ bubble.tooltip.visible
        /\ event.inaxes
        /\ event.ind = {i, j}
        /\ Bubble_on_hover(bubble, event).scatter.edgecolors[i] = "red"
        /\ Bubble_on_hover(bubble, event).scatter.edgecolors[j] = "white"

====
